---- MODULE Spec2Model ----
(***************************************************************************)
(* Model of the store ledger kept by DatabaseManager                       *)
(* (src/Store/database/db_manager.py).                                     *)
(*                                                                         *)
(* The persisted state is the content of store.db: the Product, Customer,  *)
(* Sale, Supply and InventoryCheck tables.  Every DatabaseManager method   *)
(* opens a session, stages its changes, and either commits them or rolls   *)
(* them back; one action models one whole method call.                     *)
(*                                                                         *)
(* A record_sale call is also modelled in two steps, load and commit, for *)
(* the runs in which two DatabaseManager instances share one store.db.     *)
(*                                                                         *)
(* Money: prices and costs are whole units; Sale.total and                 *)
(* Customer.total_purchases are kept in hundredths of a unit (Scale) so    *)
(* that the factor (1 - discount / 100) is computed exactly.               *)
(***************************************************************************)
EXTENDS Integers, Sequences, FiniteSets, TLC

\* ---- bounds of the model ------------------------------------------------
MaxProducts == 2      \* product ids handed out: 1 .. MaxProducts
MaxCustomers == 1     \* customer ids handed out: 1 .. MaxCustomers
MaxRows == 1          \* rows per Sale / Supply / InventoryCheck table
MaxStock == 2         \* Product.quantity is kept within -1 .. MaxStock
MaxArg == 2           \* largest quantity argument tried
MaxPurchases == 300   \* |Customer.total_purchases| cap, in hundredths
MaxHistory == 2       \* Sale rows of a seeded sales history
MaxText == 3          \* characters of a phone or email argument

\* ---- program constants --------------------------------------------------
Scale == 100          \* the 100 of "1 - customer.discount / 100"
NoCustomer == 0       \* customer_id=None (any falsy customer_id)

\* ---- argument domains ---------------------------------------------------
ProductIdArgs == 1 .. (MaxProducts + 1)      \* the last one is never stored
CustomerIdArgs == 0 .. (MaxCustomers + 1)    \* None, stored ids, a dangling id
QuantityArgs == (-1) .. MaxArg
FailurePoints == {"none", "before_commit", "after_commit"}

\* An optional keyword argument: << >> is None, <<v>> is the value v.
Optional(S) == {<< >>} \cup {<<v>> : v \in S}

\* db:   the tables of store.db.  products and customers map an id to its
\*       row; sales, supplies and checks are the rows in insertion order.
\* last: the last call, its arguments and its outcome: "ok" (the created or
\*       updated object, or True, was returned), "none" (None or False was
\*       returned) or "raise" (an exception reached the caller; a call that
\*       raised before its commit records no arguments).  For a report the
\*       outcome is the value returned.
\* sessions: the record_sale calls of concurrently running DatabaseManager
\*       instances (two copies of the application on one store.db), each
\*       with the position it has reached and the rows its session loaded.
VARIABLES db, last, sessions

vars == <<db, last, sessions>>

\* ---- helpers ------------------------------------------------------------
\* The sum of a sequence of numbers (func.sum over the selected rows).
RECURSIVE SumSeq(_)
SumSeq(s) == IF s = << >> THEN 0 ELSE s[1] + SumSeq(Tail(s))

Max(S) == CHOOSE x \in S : \A y \in S : y <= x

\* The id a newly inserted row gets from the INTEGER PRIMARY KEY column.
NextId(ids) == IF ids = {} THEN 1 ELSE Max(ids) + 1

\* session.query(Product).get(product_id) is not None
HasProduct(d, product_id) == product_id \in DOMAIN d.products

\* session.query(Customer).get(customer_id), guarded by "if customer_id:";
\* << >> stands for None.
LookupCustomer(d, customer_id) ==
    IF customer_id # NoCustomer /\ customer_id \in DOMAIN d.customers
    THEN <<d.customers[customer_id]>>
    ELSE << >>

\* Extend / overwrite / remove one row of a table keyed by id.
Put(table, id, row) ==
    [i \in (DOMAIN table) \cup {id} |-> IF i = id THEN row ELSE table[i]]

Remove(table, id) == [i \in (DOMAIN table) \ {id} |-> table[i]]

\* session.commit() makes the staged state the persisted one;
\* session.rollback() discards everything staged since the session began.
Commit(before, staged) == staged

Rollback(before, staged) == before

Result(op, product_id, customer_id, quantity, cost, res) ==
    [op |-> op, product_id |-> product_id, customer_id |-> customer_id,
     quantity |-> quantity, cost |-> cost, res |-> res]

\* The same for the calls whose arguments are recorded as a tuple.
Answer(op, args, res) == [op |-> op, args |-> args, res |-> res]

\* The part of the state space explored: the tables and counters stay small.
StockRange == (-1) .. MaxStock

Bounded(d) ==
    /\ DOMAIN d.products \subseteq 1 .. MaxProducts
    /\ DOMAIN d.customers \subseteq 1 .. MaxCustomers
    /\ Len(d.sales) <= MaxRows
    /\ Len(d.supplies) <= MaxRows
    /\ Len(d.checks) <= MaxRows
    /\ \A i \in DOMAIN d.products : d.products[i].quantity \in StockRange
    /\ \A i \in DOMAIN d.customers :
          d.customers[i].total_purchases \in (-MaxPurchases) .. MaxPurchases

\* ---- initial state ------------------------------------------------------
EmptyTable == [i \in {} |-> 0]

\* The concurrent callers of record_sale, and a caller that has not called.
SessionIds == {"A", "B"}

Idle == [pc |-> "idle", product_id |-> 0, quantity |-> 0, customer_id |-> 0,
         product |-> << >>, customer |-> << >>, date |-> 0]

AllIdle == [s \in SessionIds |-> Idle]

Init ==
    /\ db = [products |-> EmptyTable, customers |-> EmptyTable,
             sales |-> << >>, supplies |-> << >>, checks |-> << >>]
    /\ last = Result("init", 0, 0, 0, 0, "ok")
    /\ sessions = AllIdle

\* ---- add_product ------------------------------------------------------
\* Product(...); a barcode or description of << >> is None.
NewProduct(name, category, price, quantity, min_stock, barcode, description) ==
    [name |-> name, category |-> category, price |-> price,
     quantity |-> quantity, min_stock |-> min_stock,
     barcode |-> barcode, description |-> description]

\* The product add_product("Tea", "FOOD", price, quantity, min_stock) stores.
Stocked(price, quantity, min_stock) ==
    NewProduct("Tea", "FOOD", price, quantity, min_stock, << >>, << >>)

AddProductStaged(d, name, category, price, quantity, min_stock, barcode, description) ==
    [d EXCEPT !.products =
        Put(@, NextId(DOMAIN @),
            NewProduct(name, category, price, quantity, min_stock, barcode,
                       description))]

AddProduct(name, category, price, quantity, min_stock, barcode, description, failure) ==
    LET staged == AddProductStaged(db, name, category, price, quantity,
                                   min_stock, barcode, description)
        id == NextId(DOMAIN db.products)
    IN IF failure = "before_commit"
       THEN /\ db' = Rollback(db, staged)
            /\ last' = Result("add_product", 0, 0, 0, 0, "raise")
       ELSE /\ failure = "none"
            /\ db' = Commit(db, staged)
            /\ last' = Result("add_product", id, 0, quantity, 0, "ok")

\* ---- add_customer -----------------------------------------------------
\* A str is the sequence of its characters; a phone or an email is optional:
\* << >> is None, <<text>> the str text (so << << >> >> is the empty str).
\*
\* str.strip(): the text without its leading and trailing blanks.
RECURSIVE StripLeft(_)
StripLeft(text) ==
    IF text # << >> /\ text[1] = " " THEN StripLeft(Tail(text)) ELSE text

RECURSIVE StripRight(_)
StripRight(text) ==
    IF text # << >> /\ text[Len(text)] = " "
    THEN StripRight(SubSeq(text, 1, Len(text) - 1))
    ELSE text

Strip(text) == StripRight(StripLeft(text))

\* "if phone and isinstance(phone, str): phone = phone.strip() or None":
\* None and the empty str are falsy and skip the assignment.
EmptyToNone(contact) ==
    IF contact # << >> /\ contact[1] # << >>
    THEN LET text == Strip(contact[1])
         IN IF text # << >> THEN <<text>> ELSE << >>
    ELSE contact

\* Customer(...); total_purchases starts at the column default.
NewCustomer(name, phone, email, discount) ==
    [name |-> name, phone |-> phone, email |-> email, discount |-> discount,
     total_purchases |-> 0]

\* The customer add_customer("Ann", "5", None, discount) stores.
Registered(discount) == NewCustomer("Ann", << <<"5">> >>, << >>, discount)

AddCustomerStaged(d, name, phone, email, discount) ==
    [d EXCEPT !.customers =
        Put(@, NextId(DOMAIN @),
            NewCustomer(name, EmptyToNone(phone), EmptyToNone(email), discount))]

\* last records the call as (name, phone, email, discount).
AddCustomer(name, phone, email, discount, failure) ==
    LET staged == AddCustomerStaged(db, name, phone, email, discount)
    IN IF failure = "before_commit"
       THEN /\ db' = Rollback(db, staged)
            /\ last' = Answer("add_customer", << >>, "raise")
       ELSE /\ failure = "none"
            /\ db' = Commit(db, staged)
            /\ last' = Answer("add_customer", <<name, phone, email, discount>>,
                              "ok")

\* ---- update_product_quantity ------------------------------------------
UpdateProductQuantityStaged(d, product_id, quantity_change) ==
    [d EXCEPT !.products[product_id].quantity = @ + quantity_change]

UpdateProductQuantity(product_id, quantity_change, failure) ==
    LET staged == UpdateProductQuantityStaged(db, product_id, quantity_change)
        op == "update_product_quantity"
    IN IF failure = "before_commit"
       THEN /\ db' = Rollback(db, staged)
            /\ last' = Result(op, 0, 0, 0, 0, "raise")
       ELSE /\ failure = "none"
            /\ IF HasProduct(db, product_id)
               THEN /\ db' = Commit(db, staged)
                    /\ last' = Result(op, product_id, 0, quantity_change, 0, "ok")
               ELSE /\ db' = db
                    /\ last' = Result(op, product_id, 0, quantity_change, 0, "none")

\* ---- update_product ---------------------------------------------------
\* Every keyword argument is optional: << >> is the default None, <<v>>
\* the value v.  last records the call as (product_id, the seven keyword
\* arguments in the order of the signature).
\*
\* The attribute never assigned.
SuppliedIgnored(old, arg) == old

\* "if price is not None: product.price = price", and so on.
Supplied(old, arg) == IF arg # << >> THEN arg[1] ELSE old

UpdateProductStaged(d, product_id, name, category, price, quantity, min_stock, barcode, description) ==
    [d EXCEPT !.products[product_id] =
        [name |-> Supplied(@.name, name),
         category |-> Supplied(@.category, category),
         price |-> Supplied(@.price, price),
         quantity |-> Supplied(@.quantity, quantity),
         min_stock |-> Supplied(@.min_stock, min_stock),
         barcode |-> Supplied(@.barcode, barcode),
         description |-> Supplied(@.description, description)]]

UpdateProduct(product_id, name, category, price, quantity, min_stock, barcode, description, failure) ==
    LET staged == UpdateProductStaged(db, product_id, name, category, price,
                                      quantity, min_stock, barcode, description)
        args == <<product_id, name, category, price, quantity, min_stock,
                  barcode, description>>
    IN IF failure = "before_commit"
       THEN /\ db' = Rollback(db, staged)
            /\ last' = Answer("update_product", << >>, "raise")
       ELSE /\ failure = "none"
            /\ IF HasProduct(db, product_id)
               THEN /\ db' = Commit(db, staged)
                    /\ last' = Answer("update_product", args, "ok")
               ELSE /\ db' = db
                    /\ last' = Answer("update_product", args, "none")

\* ---- record_sale ------------------------------------------------------
\* The refusal with the stock comparison left out.
SaleRefusedOnlyIfMissing(d, product_id, quantity) == ~HasProduct(d, product_id)

\* "if not product or product.quantity < quantity: return None"
SaleRefused(d, product_id, quantity) ==
    \/ ~HasProduct(d, product_id)
    \/ d.products[product_id].quantity < quantity

\* The total with the discount taken as the factor, not as the reduction.
SaleTotalDiscountAsFactor(product, quantity, customer) ==
    LET total == product.price * quantity * Scale
    IN IF customer # << >> /\ customer[1].discount > 0
       THEN (total * customer[1].discount) \div Scale
       ELSE total

\* total = product.price * quantity, then the customer's discount, if any.
SaleTotal(product, quantity, customer) ==
    LET total == product.price * quantity * Scale
    IN IF customer # << >> /\ customer[1].discount > 0
       THEN (total * (Scale - customer[1].discount)) \div Scale
       ELSE total

\* Sale(...); date is datetime.now(), the reading of the clock, in ticks.
NewSale(product_id, customer_id, quantity, price, total, date) ==
    [product_id |-> product_id, customer_id |-> customer_id,
     quantity |-> quantity, price |-> price, total |-> total, date |-> date]

\* The stock left as it was.
StockAfterSaleUnchanged(stock, quantity) == stock

StockAfterSale(stock, quantity) == stock - quantity

\* The customer's statistics left as they were.
PurchasesAfterSaleUnchanged(total_purchases, total) == total_purchases

\* "customer.total_purchases += total"
PurchasesAfterSale(total_purchases, total) == total_purchases + total

RecordSaleStaged(d, product_id, quantity, customer_id, now) ==
    LET product == d.products[product_id]
        customer == LookupCustomer(d, customer_id)
        total == SaleTotal(product, quantity, customer)
        sale == NewSale(product_id, customer_id, quantity, product.price,
                        total, now)
    IN [d EXCEPT
          !.products[product_id].quantity = StockAfterSale(@, quantity),
          !.customers = IF customer # << >>
                        THEN [@ EXCEPT ![customer_id].total_purchases =
                                           PurchasesAfterSale(@, total)]
                        ELSE @,
          !.sales = Append(@, sale)]

\* now is what datetime.now() returns during the call.
RecordSale(product_id, quantity, customer_id, now, failure) ==
    LET staged == RecordSaleStaged(db, product_id, quantity, customer_id, now)
        op == "record_sale"
    IN IF failure = "before_commit"
       THEN /\ db' = Rollback(db, staged)
            /\ last' = Result(op, 0, 0, 0, 0, "raise")
       ELSE IF SaleRefused(db, product_id, quantity)
       THEN /\ failure = "none"
            /\ db' = db
            \* the refused call returns before it looks at customer_id
            /\ last' = Result(op, product_id, 0, quantity, 0, "none")
       ELSE /\ db' = Commit(db, staged)
            \* session.refresh(sale) runs after the commit: if it raises, the
            \* rollback in the except branch has nothing left to undo.
            /\ last' = Result(op, product_id, customer_id, quantity, 0,
                              IF failure = "after_commit" THEN "raise" ELSE "ok")

\* ---- record_sale, seen from another session ----------------------------
\* Nothing in record_sale locks the rows it reads, and no column carries a
\* version: the session loads the Product (and the Customer), the method
\* checks and computes on the loaded objects, and session.commit() writes
\* the values computed from them.  Between the load and the commit another
\* session can commit.
\*
\* "product = session.query(Product).get(product_id)" up to the lookup of
\* the customer: the rows are loaded; a refused call returns at once.
RecordSaleRead(s, product_id, quantity, customer_id, now) ==
    /\ sessions[s].pc = "idle"
    /\ db' = db
    /\ IF SaleRefused(db, product_id, quantity)
       THEN /\ sessions' = [sessions EXCEPT ![s].pc = "done"]
            /\ last' = Result("record_sale", product_id, 0, quantity, 0, "none")
       ELSE /\ sessions' = [sessions EXCEPT ![s] =
                  [pc |-> "loaded", product_id |-> product_id,
                   quantity |-> quantity, customer_id |-> customer_id,
                   product |-> <<db.products[product_id]>>,
                   customer |-> LookupCustomer(db, customer_id),
                   date |-> now]]
            /\ last' = last

\* "product.quantity -= quantity" up to "session.commit()": the flush
\* writes the attributes the method has set, which it computed from the
\* rows it loaded, and inserts the Sale.
RecordSaleWrite(s) ==
    LET call == sessions[s]
        product == call.product[1]
        total == SaleTotal(product, call.quantity, call.customer)
        sale == NewSale(call.product_id, call.customer_id, call.quantity,
                        product.price, total, call.date)
    IN /\ call.pc = "loaded"
       /\ db' = [db EXCEPT
             !.products[call.product_id].quantity =
                 StockAfterSale(product.quantity, call.quantity),
             !.customers =
                 IF call.customer # << >>
                 THEN [@ EXCEPT ![call.customer_id].total_purchases =
                          PurchasesAfterSale(call.customer[1].total_purchases,
                                             total)]
                 ELSE @,
             !.sales = Append(@, sale)]
       /\ sessions' = [sessions EXCEPT ![s].pc = "done"]
       /\ last' = Result("record_sale", call.product_id, call.customer_id,
                         call.quantity, 0, "ok")

\* ---- add_supply -------------------------------------------------------
NewSupply(supplier, product_id, quantity, cost) ==
    [supplier |-> supplier, product_id |-> product_id,
     quantity |-> quantity, cost |-> cost]

\* The stock overwritten by the delivery instead of increased by it.
StockAfterSupplyOverwritten(stock, quantity) == quantity

StockAfterSupply(stock, quantity) == stock + quantity

AddSupplyStaged(d, supplier, product_id, quantity, cost) ==
    [d EXCEPT
       !.products = IF HasProduct(d, product_id)
                    THEN [@ EXCEPT ![product_id].quantity =
                                       StockAfterSupply(@, quantity)]
                    ELSE @,
       !.supplies = Append(@, NewSupply(supplier, product_id, quantity, cost))]

AddSupply(supplier, product_id, quantity, cost, failure) ==
    LET staged == AddSupplyStaged(db, supplier, product_id, quantity, cost)
        op == "add_supply"
    IN IF failure = "before_commit"
       THEN /\ db' = Rollback(db, staged)
            /\ last' = Result(op, 0, 0, 0, 0, "raise")
       ELSE /\ db' = Commit(db, staged)
            \* session.refresh(supply) runs after the commit.
            /\ last' = Result(op, product_id, 0, quantity, cost,
                              IF failure = "after_commit" THEN "raise" ELSE "ok")

\* ---- get_product_related_counts ---------------------------------------
CountFor(rows, product_id) ==
    Cardinality({i \in DOMAIN rows : rows[i].product_id = product_id})

GetProductRelatedCounts(d, product_id) ==
    [sales |-> CountFor(d.sales, product_id),
     supplies |-> CountFor(d.supplies, product_id),
     inventory_checks |-> CountFor(d.checks, product_id)]

\* ---- delete_product ---------------------------------------------------
\* The related rows left in place.
DeleteRelatedSkipped(rows, product_id) == rows

\* Delete every row of a table that refers to the product.
DeleteRelated(rows, product_id) ==
    LET Keep(row) == row.product_id # product_id IN SelectSeq(rows, Keep)

DeleteProductStaged(d, product_id) ==
    [d EXCEPT !.sales = DeleteRelated(@, product_id),
              !.supplies = DeleteRelated(@, product_id),
              !.checks = DeleteRelated(@, product_id),
              !.products = Remove(@, product_id)]

DeleteProduct(product_id, failure) ==
    LET staged == DeleteProductStaged(db, product_id)
        op == "delete_product"
    IN IF failure = "before_commit"
       THEN /\ db' = Rollback(db, staged)
            /\ last' = Result(op, 0, 0, 0, 0, "raise")
       ELSE /\ failure = "none"
            /\ IF HasProduct(db, product_id)
               THEN /\ db' = Commit(db, staged)
                    /\ last' = Result(op, product_id, 0, 0, 0, "ok")
               ELSE /\ db' = db
                    /\ last' = Result(op, product_id, 0, 0, 0, "none")

\* ---- reports ------------------------------------------------------------
\* A report reads the tables and returns; it stages and commits nothing.
\* ---- get_best_selling_products ----------------------------------------
\* ".join(Sale)": the products that have at least one Sale row.
SoldProducts(d) ==
    {p \in DOMAIN d.products : \E i \in DOMAIN d.sales : d.sales[i].product_id = p}

\* func.sum(Sale.quantity) of the group of one product.
TotalSold(d, product_id) ==
    LET OfProduct(row) == row.product_id = product_id
        rows == SelectSeq(d.sales, OfProduct)
    IN SumSeq([i \in DOMAIN rows |-> rows[i].quantity])

\* ".order_by(desc('total_sold'))": every order of the groups in which the
\* sums do not increase.  The statement names no second sort key, so the
\* database is free to return groups with equal sums in either order (SQLite
\* returns them by descending id when it scans sales without an index on
\* product_id, by ascending id when it walks such an index).
Rankings(d) ==
    LET groups == SoldProducts(d)
        n == Cardinality(groups)
    IN {r \in [1 .. n -> groups] :
          /\ \A i, j \in 1 .. n : i # j => r[i] # r[j]
          /\ \A i, j \in 1 .. n :
                i < j => TotalSold(d, r[i]) >= TotalSold(d, r[j])}

\* ".limit(limit)"
Limit(rows, limit) ==
    IF limit >= 0 /\ limit < Len(rows) THEN SubSeq(rows, 1, limit) ELSE rows

\* The lists get_best_selling_products(limit) can return: rows of
\* (Product, total_sold), the product given by its id.
GetBestSellingProducts(d, limit) ==
    {Limit([i \in DOMAIN r |-> [id |-> r[i], total_sold |-> TotalSold(d, r[i])]],
           limit) : r \in Rankings(d)}

BestSellingProducts(limit) ==
    /\ \E rows \in GetBestSellingProducts(db, limit) :
          last' = Answer("get_best_selling_products", <<limit>>, rows)
    /\ db' = db

\* ---- get_total_sales_amount --------------------------------------------
\* The period with its last tick left out.
InPeriodEndExcluded(row, start_date, end_date) ==
    row.date >= start_date /\ row.date < end_date

\* "and_(Sale.date >= start_date, Sale.date <= end_date)"
InPeriod(row, start_date, end_date) ==
    row.date >= start_date /\ row.date <= end_date

\* "if start_date and end_date:" filters only when both are given (a
\* datetime is never falsy); start_date and end_date are optional.
SalesSelected(d, start_date, end_date) ==
    IF start_date # << >> /\ end_date # << >>
    THEN LET Selected(row) == InPeriod(row, start_date[1], end_date[1])
         IN SelectSeq(d.sales, Selected)
    ELSE d.sales

\* "query.scalar()": SUM over no rows is NULL, which arrives as None (<< >>).
Scalar(rows) ==
    IF rows = << >> THEN << >>
    ELSE <<SumSeq([i \in DOMAIN rows |-> rows[i].total])>>

\* "... or 0": None and 0 both give 0.
OrZero(value) == IF value = << >> \/ value[1] = 0 THEN 0 ELSE value[1]

GetTotalSalesAmount(d, start_date, end_date) ==
    OrZero(Scalar(SalesSelected(d, start_date, end_date)))

TotalSalesAmount(start_date, end_date) ==
    /\ last' = Answer("get_total_sales_amount", <<start_date, end_date>>,
                      GetTotalSalesAmount(db, start_date, end_date))
    /\ db' = db

\* ---- get_low_stock_products --------------------------------------------
\* The comparison with equality let through.
LowStockOrEqual(product) == product.quantity <= product.min_stock

\* "Product.quantity < Product.min_stock"
LowStock(product) == product.quantity < product.min_stock

\* The products the query returns, given by their ids.
GetLowStockProducts(d) ==
    {p \in DOMAIN d.products : LowStock(d.products[p])}

LowStockProducts ==
    /\ last' = Answer("get_low_stock_products", << >>, GetLowStockProducts(db))
    /\ db' = db

\* ---- InventoryCheck rows ----------------------------------------------
\* Rows of the InventoryCheck table are written outside DatabaseManager.
AddInventoryCheck(product_id) ==
    /\ HasProduct(db, product_id)
    /\ db' = [db EXCEPT !.checks = Append(@, [product_id |-> product_id])]
    /\ last' = Result("inventory_check", product_id, 0, 0, 0, "ok")

\* ---- the store: every DatabaseManager operation -----------------------
\* The clock reads 1 wherever no report reads the dates of the rows.
\* Every step stays within the bounds.
InBounds == Bounded(db')

\* A whole method call opens and closes its own session within the step.
Whole == InBounds /\ UNCHANGED sessions

Next ==
    \/ \E quantity \in {-1, 1}, failure \in FailurePoints :
          AddProduct("Tea", "FOOD", 2, quantity, 1, << >>, << >>, failure) /\ Whole
    \/ \E failure \in FailurePoints :
          AddCustomer("Ann", << <<"5">> >>, << >>, 10, failure) /\ Whole
    \/ \E product_id \in ProductIdArgs, change \in {-1, 1},
          failure \in FailurePoints :
          UpdateProductQuantity(product_id, change, failure) /\ Whole
    \/ \E product_id \in ProductIdArgs, quantity \in Optional({-1, 1}),
          failure \in FailurePoints :
          UpdateProduct(product_id, << >>, << >>, <<2>>, quantity, << >>, << >>,
                        << >>, failure) /\ Whole
    \/ \E product_id \in ProductIdArgs, quantity \in {-1, 1},
          customer_id \in CustomerIdArgs, failure \in FailurePoints :
          RecordSale(product_id, quantity, customer_id, 1, failure) /\ Whole
    \/ \E product_id \in ProductIdArgs, quantity \in {-1, 1},
          failure \in FailurePoints :
          AddSupply("Acme", product_id, quantity, 5, failure) /\ Whole
    \/ \E product_id \in ProductIdArgs, failure \in FailurePoints :
          DeleteProduct(product_id, failure) /\ Whole

Spec == Init /\ [][Next]_vars

\* ---- the sale service on a stocked store --------------------------------
\* Two products and one customer have been created (add_product,
\* add_customer); sales are then recorded.
InitSale ==
    /\ \E price \in {1, 3}, quantity \in {0, 2}, discount \in {0, 10, 25, 100} :
          db = [products |-> <<Stocked(price, quantity, 1), Stocked(2, 1, 1)>>,
                customers |-> <<Registered(discount)>>,
                sales |-> << >>, supplies |-> << >>, checks |-> << >>]
    /\ last = Result("init", 0, 0, 0, 0, "ok")
    /\ sessions = AllIdle

NextSale ==
    \/ \E product_id \in ProductIdArgs, quantity \in QuantityArgs,
          customer_id \in CustomerIdArgs, failure \in FailurePoints :
          RecordSale(product_id, quantity, customer_id, 1, failure) /\ Whole

SpecSale == InitSale /\ [][NextSale]_vars

\* ---- the supply service on a stocked store ------------------------------
InitSupply ==
    /\ \E quantity \in {0, 1} :
          db = [products |-> <<Stocked(2, quantity, 1), Stocked(2, 1, 1)>>,
                customers |-> << >>,
                sales |-> << >>, supplies |-> << >>, checks |-> << >>]
    /\ last = Result("init", 0, 0, 0, 0, "ok")
    /\ sessions = AllIdle

NextSupply ==
    \/ \E product_id \in ProductIdArgs, quantity \in QuantityArgs,
          cost \in {0, 5}, failure \in FailurePoints :
          AddSupply("Acme", product_id, quantity, cost, failure) /\ Whole

SpecSupply == InitSupply /\ [][NextSupply]_vars

\* ---- deleting products that have sales, supplies and checks -------------
\* One product is in stock; units are sold and delivered one at a time, to
\* ids that may or may not be stored, and products are deleted and added.
InitDelete ==
    /\ db = [products |-> <<Stocked(2, 2, 1)>>, customers |-> << >>,
             sales |-> << >>, supplies |-> << >>, checks |-> << >>]
    /\ last = Result("init", 0, 0, 0, 0, "ok")
    /\ sessions = AllIdle

NextDelete ==
    \/ \E failure \in FailurePoints :
          AddProduct("Tea", "FOOD", 2, 2, 1, << >>, << >>, failure) /\ Whole
    \/ \E product_id \in ProductIdArgs, customer_id \in {NoCustomer, 1},
          failure \in FailurePoints :
          RecordSale(product_id, 1, customer_id, 1, failure) /\ Whole
    \/ \E product_id \in ProductIdArgs, failure \in FailurePoints :
          AddSupply("Acme", product_id, 1, 5, failure) /\ Whole
    \/ \E product_id \in ProductIdArgs :
          AddInventoryCheck(product_id) /\ Whole
    \/ \E product_id \in ProductIdArgs, failure \in FailurePoints :
          DeleteProduct(product_id, failure) /\ Whole

SpecDelete == InitDelete /\ [][NextDelete]_vars

\* ---- two applications selling from one store.db ------------------------
\* A stocked store with one customer; each of two DatabaseManager
\* instances records one sale, their steps interleaved in any order.
InitConcurrent ==
    /\ \E quantity \in 1 .. MaxStock, discount \in {0, 25} :
          db = [products |-> <<Stocked(2, quantity, 1), Stocked(2, 1, 1)>>,
                customers |-> <<Registered(discount)>>,
                sales |-> << >>, supplies |-> << >>, checks |-> << >>]
    /\ last = Result("init", 0, 0, 0, 0, "ok")
    /\ sessions = AllIdle

NextConcurrent ==
    \/ \E s \in SessionIds, product_id \in DOMAIN db.products,
          quantity \in 1 .. MaxArg, customer_id \in {NoCustomer, 1} :
          RecordSaleRead(s, product_id, quantity, customer_id, 1)
    \/ \E s \in SessionIds : RecordSaleWrite(s)

SpecConcurrent == InitConcurrent /\ [][NextConcurrent]_vars

\* ---- the reports on a store with a sales history ------------------------
\* Three products were created and up to MaxHistory sales were recorded, at
\* any readings of the clock (datetime.now() is local time and can step
\* back); product 3 was never sold.  The reports are then asked for.
Dates == 1 .. 3

SaleHistories ==
    LET rows == {NewSale(product_id, NoCustomer, quantity, 2,
                         2 * quantity * Scale, date) :
                   product_id \in {1, 2}, quantity \in {1, 2}, date \in Dates}
    IN UNION {[1 .. n -> rows] : n \in 0 .. MaxHistory}

InitReport ==
    /\ \E sales \in SaleHistories :
          db = [products |-> <<Stocked(2, 1, 1), Stocked(2, 0, 1),
                              Stocked(2, 2, 1)>>,
                customers |-> << >>,
                sales |-> sales, supplies |-> << >>, checks |-> << >>]
    /\ last = Result("init", 0, 0, 0, 0, "ok")
    /\ sessions = AllIdle

NextReport ==
    \/ \E limit \in 1 .. 3 : BestSellingProducts(limit) /\ UNCHANGED sessions
    \/ \E start_date \in Optional(Dates), end_date \in Optional(Dates) :
          TotalSalesAmount(start_date, end_date) /\ UNCHANGED sessions

SpecReport == InitReport /\ [][NextReport]_vars

\* ---- the low-stock report while the stock moves --------------------------
\* Products are created with any stock and any threshold; units of the
\* first product are sold and delivered one at a time and its quantity and
\* threshold are updated; the low-stock report is asked for at any moment.
Thresholds == 0 .. 2

NextStock ==
    \/ \E quantity \in 0 .. 2, min_stock \in Thresholds,
          failure \in FailurePoints :
          AddProduct("Tea", "FOOD", 2, quantity, min_stock, << >>, << >>, failure)
             /\ Whole
    \/ \E failure \in FailurePoints :
          RecordSale(1, 1, NoCustomer, 1, failure) /\ Whole
    \/ \E failure \in FailurePoints :
          AddSupply("Acme", 1, 1, 5, failure) /\ Whole
    \/ \E quantity \in Optional({0}), min_stock \in Optional(Thresholds),
          failure \in FailurePoints :
          UpdateProduct(1, << >>, << >>, << >>, quantity, min_stock, << >>, << >>,
                        failure) /\ Whole
    \/ LowStockProducts /\ UNCHANGED sessions

SpecStock == Init /\ [][NextStock]_vars

\* ---- editing a product of a store with a history -----------------------
\* Two products, a customer, a sale and a delivery are stored.  Product 1,
\* or a product that does not exist, is updated with any subset of the
\* keyword arguments; the values given include 0 and the empty string.
InitUpdate ==
    /\ db = [products |-> <<Stocked(2, 2, 1), Stocked(3, 1, 1)>>,
             customers |-> <<Registered(10)>>,
             sales |-> <<NewSale(1, 1, 1, 2, 180, 1)>>,
             supplies |-> <<NewSupply("Acme", 2, 1, 5)>>,
             checks |-> << >>]
    /\ last = Result("init", 0, 0, 0, 0, "ok")
    /\ sessions = AllIdle

NextUpdate ==
    \/ \E name \in Optional({"Mate"}), category \in Optional({"BOOKS"}),
          price \in Optional({0}), quantity \in Optional({0}),
          min_stock \in Optional({0}), barcode \in Optional({"4006"}),
          description \in Optional({""}), failure \in FailurePoints :
          UpdateProduct(1, name, category, price, quantity, min_stock,
                        barcode, description, failure) /\ Whole
    \/ \E name \in Optional({"Mate"}), quantity \in Optional({0}),
          failure \in FailurePoints :
          UpdateProduct(MaxProducts + 1, name, << >>, << >>, quantity, << >>,
                        << >>, << >>, failure) /\ Whole

SpecUpdate == InitUpdate /\ [][NextUpdate]_vars

\* ---- registering customers -----------------------------------------------
\* Every phone and email of up to MaxText characters made of blanks and
\* digits, and None.
Texts == UNION {[1 .. n -> {" ", "5"}] : n \in 0 .. MaxText}

NextCustomer ==
    \/ \E phone \in Optional(Texts), email \in Optional(Texts),
          failure \in FailurePoints :
          AddCustomer("Ann", phone, email, 0, failure) /\ Whole

SpecCustomer == Init /\ [][NextCustomer]_vars

\* ---- the customer's statistics against the Sale rows ---------------------
\* Two products and a customer with a 10 % discount are stored; units are
\* sold (to nobody, to the customer, to an id that is not stored) and
\* delivered one at a time, and products are deleted.
InitLedger ==
    /\ db = [products |-> <<Stocked(2, 2, 1), Stocked(1, 1, 1)>>,
             customers |-> <<Registered(10)>>,
             sales |-> << >>, supplies |-> << >>, checks |-> << >>]
    /\ last = Result("init", 0, 0, 0, 0, "ok")
    /\ sessions = AllIdle

NextLedger ==
    \/ \E product_id \in ProductIdArgs, customer_id \in CustomerIdArgs,
          failure \in FailurePoints :
          RecordSale(product_id, 1, customer_id, 1, failure) /\ Whole
    \/ \E product_id \in ProductIdArgs, failure \in FailurePoints :
          AddSupply("Acme", product_id, 1, 5, failure) /\ Whole
    \/ \E product_id \in ProductIdArgs, failure \in FailurePoints :
          DeleteProduct(product_id, failure) /\ Whole

SpecLedger == InitLedger /\ [][NextLedger]_vars

(***************************************************************************)
(* Properties                                                              *)
(***************************************************************************)
Sold == last.op = "record_sale" /\ last.res = "ok"

SoldNext == last'.op = "record_sale" /\ last'.res = "ok"

\* C1: in every reachable state every stored Product has quantity >= 0.
C1_QuantityNeverNegative ==
    \A i \in DOMAIN db.products : db.products[i].quantity >= 0

\* C2: a successful record_sale(product_id, q, customer_id) leaves the
\* product with its former quantity minus q, appends exactly one Sale row,
\* which carries that product_id and q, and changes no other product.
C2_SaleDecrementsStock ==
    [][SoldNext =>
         LET p == last'.product_id
             q == last'.quantity
             n == Len(db.sales)
         IN /\ DOMAIN db'.products = DOMAIN db.products
            /\ db'.products[p].quantity = db.products[p].quantity - q
            /\ \A other \in DOMAIN db.products \ {p} :
                  db'.products[other] = db.products[other]
            /\ Len(db'.sales) = n + 1
            /\ SubSeq(db'.sales, 1, n) = db.sales
            /\ db'.sales[n + 1].product_id = p
            /\ db'.sales[n + 1].quantity = q]_vars

\* A sale of a positive quantity went through while another product exists.
C2_Witness ==
    /\ Sold
    /\ last.quantity >= 1
    /\ DOMAIN db.products \ {last.product_id} # {}

\* C3: record_sale of more than the product's stock returns None and leaves
\* the whole store as it was: Product.quantity, every
\* Customer.total_purchases and the Sale table.
C3_InsufficientStockNoMutation ==
    [][(/\ last'.op = "record_sale"
        /\ last'.product_id \in DOMAIN db.products
        /\ last'.quantity > db.products[last'.product_id].quantity)
       => (last'.res = "none" /\ db' = db)]_vars

\* A sale of more than the stock of an existing product was just refused.
C3_Witness ==
    /\ last.op = "record_sale"
    /\ last.res = "none"
    /\ last.product_id \in DOMAIN db.products
    /\ last.quantity > db.products[last.product_id].quantity
    /\ db.products[last.product_id].quantity > 0

\* C4: the Sale created by a successful record_sale has price equal to the
\* Product.price read by the call and total = price * quantity *
\* (1 - discount / 100), where discount is the customer's discount when an
\* existing customer is given and 0 when none is given (totals are in
\* hundredths, so the right-hand side is price * quantity * (100 - discount)).
C4_SaleTotal ==
    [][(/\ SoldNext
        /\ last'.customer_id \in {NoCustomer} \cup DOMAIN db.customers)
       => LET sale == db'.sales[Len(db'.sales)]
              cid == last'.customer_id
              discount == IF cid = NoCustomer THEN 0
                          ELSE db.customers[cid].discount
          IN /\ sale.price = db.products[last'.product_id].price
             /\ sale.total = sale.price * sale.quantity * (Scale - discount)]_vars

\* A customer with a 25 % discount bought two units.
C4_Witness ==
    /\ Sold
    /\ last.quantity = 2
    /\ last.customer_id \in DOMAIN db.customers
    /\ db.customers[last.customer_id].discount = 25
    /\ db.sales[Len(db.sales)].total > 0

\* C5: record_sale called with a customer_id that identifies no Customer
\* fails and changes nothing: no Sale is created and no quantity changes.
C5_DanglingCustomerRejected ==
    [][(/\ last'.op = "record_sale"
        /\ last'.customer_id # NoCustomer
        /\ last'.customer_id \notin DOMAIN db.customers)
       => (last'.res # "ok" /\ db' = db)]_vars

SupplyStored == last.op = "add_supply" /\ last.res = "ok"

\* C6: add_supply called with a product_id that identifies no Product fails
\* and changes nothing: no Supply row is stored, no quantity changes.
C6_MissingProductRejected ==
    [][(/\ last'.op = "add_supply"
        /\ last'.product_id \notin DOMAIN db.products)
       => (last'.res # "ok" /\ db' = db)]_vars

\* C7: a successful add_supply(supplier, product_id, q, cost) on an existing
\* product leaves it with its former quantity plus q, appends exactly one
\* Supply row, which carries that product_id, q and cost, and changes no
\* other product.
C7_SupplyIncrementsStock ==
    [][(/\ last'.op = "add_supply"
        /\ last'.res = "ok"
        /\ last'.product_id \in DOMAIN db.products)
       => LET p == last'.product_id
              q == last'.quantity
              n == Len(db.supplies)
          IN /\ DOMAIN db'.products = DOMAIN db.products
             /\ db'.products[p].quantity = db.products[p].quantity + q
             /\ \A other \in DOMAIN db.products \ {p} :
                   db'.products[other] = db.products[other]
             /\ Len(db'.supplies) = n + 1
             /\ SubSeq(db'.supplies, 1, n) = db.supplies
             /\ db'.supplies[n + 1].product_id = p
             /\ db'.supplies[n + 1].quantity = q
             /\ db'.supplies[n + 1].cost = last'.cost]_vars

\* A delivery of a positive quantity for a product in stock, while another
\* product exists.
C7_Witness ==
    /\ SupplyStored
    /\ last.quantity >= 1
    /\ last.product_id \in DOMAIN db.products
    /\ db.products[last.product_id].quantity > last.quantity
    /\ DOMAIN db.products \ {last.product_id} # {}

\* C8: add_supply with quantity <= 0 is rejected without any change, and no
\* add_supply call leaves a product with less stock than it had.
C8_SupplyNeverLowersStock ==
    [][(last'.op = "add_supply")
       => /\ last'.quantity <= 0 => (last'.res # "ok" /\ db' = db)
          /\ \A i \in DOMAIN db.products :
                /\ i \in DOMAIN db'.products
                /\ db'.products[i].quantity >= db.products[i].quantity]_vars

\* C9: after delete_product(product_id) returns True the product is gone
\* and no Sale, Supply or InventoryCheck row refers to it; on an id that
\* identifies no product it returns False and changes nothing.
C9_DeleteCascades ==
    [][(last'.op = "delete_product" /\ last'.res # "raise")
       => LET p == last'.product_id
          IN IF p \in DOMAIN db.products
             THEN /\ last'.res = "ok"
                  /\ p \notin DOMAIN db'.products
                  /\ GetProductRelatedCounts(db', p) =
                        [sales |-> 0, supplies |-> 0, inventory_checks |-> 0]
             ELSE /\ last'.res = "none"
                  /\ db' = db]_vars

\* A product was deleted while a sale, a supply and a check of another
\* product remain.
C9_Witness ==
    /\ last.op = "delete_product"
    /\ last.res = "ok"
    /\ db.sales # << >>
    /\ db.supplies # << >>
    /\ db.checks # << >>

\* C10: when record_sale, add_supply or delete_product raises, the stored
\* state is what it was before the call.
C10_FailureLeavesNoTrace ==
    [][(/\ last'.op \in {"record_sale", "add_supply", "delete_product"}
        /\ last'.res = "raise")
       => db' = db]_vars

\* C11: however the steps of two concurrent record_sale calls interleave,
\* no decrement is lost and nothing is oversold: every step keeps, for each
\* product, quantity + units sold (TotalSold) at what it was (so the final quantity is
\* the initial quantity minus the quantities of the recorded Sales), and the
\* quantity never goes below 0.
C11_NoLostDecrement ==
    [][\A p \in DOMAIN db.products :
          /\ db'.products[p].quantity + TotalSold(db', p)
                = db.products[p].quantity + TotalSold(db, p)
          /\ db'.products[p].quantity >= 0]_vars

\* C12: every stored Sale has quantity >= 1 (record_sale with a quantity of
\* 0 or less is rejected and stores no Sale).
C12_SaleQuantityPositive ==
    \A i \in DOMAIN db.sales : db.sales[i].quantity >= 1

\* C13: no step lowers a Customer's total_purchases, and a successful
\* record_sale with an existing customer raises that customer's
\* total_purchases by exactly the total of the Sale it stored and leaves
\* every other customer as it was.
C13_PurchasesNeverDecrease ==
    [][/\ \A c \in DOMAIN db.customers :
             /\ c \in DOMAIN db'.customers
             /\ db'.customers[c].total_purchases
                   >= db.customers[c].total_purchases
       /\ (SoldNext /\ last'.customer_id \in DOMAIN db.customers)
            => LET c == last'.customer_id
                   sale == db'.sales[Len(db'.sales)]
               IN /\ db'.customers[c].total_purchases
                        = db.customers[c].total_purchases + sale.total
                  /\ \A other \in DOMAIN db.customers \ {c} :
                        db'.customers[other] = db.customers[other]]_vars

\* C14: get_best_selling_products(limit) returns at most limit rows, in
\* descending order of total_sold, and rows with equal total_sold in
\* ascending order of product id.
C14_BestSellingOrder ==
    last.op = "get_best_selling_products"
    => LET rows == last.res
       IN /\ Len(rows) <= last.args[1]
          /\ \A i, j \in DOMAIN rows :
                i < j => \/ rows[i].total_sold > rows[j].total_sold
                         \/ /\ rows[i].total_sold = rows[j].total_sold
                            /\ rows[i].id < rows[j].id

\* C15: get_total_sales_amount(start_date, end_date) changes nothing; with
\* both dates given it returns the sum of total over exactly the Sales with
\* start_date <= date <= end_date, with neither given the sum of total over
\* all Sales; 0 when no Sale is counted.
C15_TotalSalesAmount ==
    [][(last'.op = "get_total_sales_amount")
       => LET start_date == last'.args[1]
              end_date == last'.args[2]
              Counted(row) ==
                  \/ start_date = << >> /\ end_date = << >>
                  \/ /\ start_date # << >> /\ end_date # << >>
                     /\ start_date[1] <= row.date
                     /\ row.date <= end_date[1]
              amounts == [i \in DOMAIN db.sales |->
                            IF Counted(db.sales[i]) THEN db.sales[i].total
                            ELSE 0]
          IN /\ db' = db
             /\ (start_date = << >>) = (end_date = << >>)
                  => /\ last'.res = SumSeq(amounts)
                     /\ (\A i \in DOMAIN db.sales : ~Counted(db.sales[i]))
                          => last'.res = 0]_vars

\* The amount of a period was asked for while one Sale dated at the last
\* tick of the period and one Sale dated after it are stored.
C15_Witness ==
    /\ last.op = "get_total_sales_amount"
    /\ last.args[1] # << >> /\ last.args[2] # << >>
    /\ \E i, j \in DOMAIN db.sales :
          /\ db.sales[i].date = last.args[2][1]
          /\ db.sales[i].date > last.args[1][1]
          /\ db.sales[j].date > last.args[2][1]
    /\ last.res > 0

\* C16: get_low_stock_products() changes nothing and returns exactly the
\* products with quantity < min_stock: a product with no stock is returned
\* whenever its min_stock is above 0, a product with quantity = min_stock
\* is not returned.
C16_LowStockExact ==
    [][(last'.op = "get_low_stock_products")
       => /\ db' = db
          /\ last'.res \subseteq DOMAIN db.products
          /\ \A p \in DOMAIN db.products :
                LET product == db.products[p]
                IN /\ p \in last'.res <=> product.quantity < product.min_stock
                   /\ (product.quantity = 0 /\ product.min_stock > 0)
                        => p \in last'.res
                   /\ product.quantity = product.min_stock
                        => p \notin last'.res]_vars

\* The report was asked for while one product is out of stock with a
\* threshold above 0, after a sale, and the other holds exactly its
\* threshold.
C16_Witness ==
    /\ last.op = "get_low_stock_products"
    /\ db.sales # << >>
    /\ \E p, r \in DOMAIN db.products :
          /\ db.products[p].quantity = 0
          /\ db.products[p].min_stock > 0
          /\ db.products[r].quantity = db.products[r].min_stock
          /\ db.products[r].quantity > 0
          /\ last.res = {p}

\* The fields of a Product in the order of update_product's keyword
\* arguments; argument k + 1 of the recorded call belongs to field k.
ProductFields ==
    <<"name", "category", "price", "quantity", "min_stock", "barcode",
      "description">>

\* C17: update_product on an existing product overwrites exactly the fields
\* that were supplied, each with the value supplied, and leaves the omitted
\* fields of that product, every other product and every Customer, Sale,
\* Supply and InventoryCheck row as they were; on an id that identifies no
\* product it returns None and changes nothing.
C17_PartialUpdateFrame ==
    [][(last'.op = "update_product" /\ last'.res # "raise")
       => LET p == last'.args[1]
          IN IF p \in DOMAIN db.products
             THEN /\ last'.res = "ok"
                  /\ DOMAIN db'.products = DOMAIN db.products
                  /\ \A k \in DOMAIN ProductFields :
                        LET field == ProductFields[k]
                            arg == last'.args[k + 1]
                        IN db'.products[p][field] =
                              IF arg = << >> THEN db.products[p][field]
                              ELSE arg[1]
                  /\ \A other \in DOMAIN db.products \ {p} :
                        db'.products[other] = db.products[other]
                  /\ db'.customers = db.customers
                  /\ db'.sales = db.sales
                  /\ db'.supplies = db.supplies
                  /\ db'.checks = db.checks
             ELSE /\ last'.res = "none"
                  /\ db' = db]_vars

\* Product 1 was updated with a price of 0 and a description of "" while
\* its name and quantity were omitted, after an earlier update had changed
\* its name.
C17_Witness ==
    /\ last.op = "update_product"
    /\ last.res = "ok"
    /\ last.args[2] = << >>
    /\ last.args[4] = <<0>>
    /\ last.args[5] = << >>
    /\ last.args[8] = <<"">>
    /\ db.products[1].name = "Mate"
    /\ db.products[1].quantity = 2

\* C18: no stored Customer has the empty string as phone or as email (an
\* empty or blank phone or email is stored as None).
C18_NoEmptyContact ==
    \A c \in DOMAIN db.customers :
       /\ db.customers[c].phone # << << >> >>
       /\ db.customers[c].email # << << >> >>

\* The sum of total over the stored Sale rows of a customer.
StoredPurchases(d, customer_id) ==
    LET OfCustomer(row) == row.customer_id = customer_id
        rows == SelectSeq(d.sales, OfCustomer)
    IN SumSeq([i \in DOMAIN rows |-> rows[i].total])

\* C19 as stated: in every state reached by record_sale, add_supply and
\* delete_product each Customer's total_purchases equals the sum of total
\* over the Sale rows stored for that customer.
C19_TotalsMatchStoredSales ==
    \A c \in DOMAIN db.customers :
       db.customers[c].total_purchases = StoredPurchases(db, c)

\* C19, amended: record_sale and add_supply keep every Customer's
\* total_purchases in step with the Sale rows stored for that customer
\* (the difference between the two is the same before and after the call,
\* and it is 0 in a store where no product has been deleted), and
\* delete_product, which removes the Sale rows of the product, leaves every
\* total_purchases as it was.
C19_TotalsFollowSales ==
    [][\A c \in DOMAIN db.customers :
          /\ c \in DOMAIN db'.customers
          /\ last'.op \in {"record_sale", "add_supply"}
               => db'.customers[c].total_purchases - StoredPurchases(db', c)
                    = db.customers[c].total_purchases - StoredPurchases(db, c)
          /\ last'.op = "delete_product"
               => db'.customers[c].total_purchases
                    = db.customers[c].total_purchases]_vars

\* A sale to the customer was recorded after a delete had removed the row
\* of an earlier sale to them: the total now exceeds the stored rows.
C19_Witness ==
    /\ Sold
    /\ last.customer_id \in DOMAIN db.customers
    /\ StoredPurchases(db, last.customer_id) > 0
    /\ db.customers[last.customer_id].total_purchases
         > StoredPurchases(db, last.customer_id)
====
